---- MODULE Spec2Model ----
(***************************************************************************)
(* A model of subtitlerBackend/main.py: the SRT time formatter, the SRT    *)
(* renderer, the rename_speakers handler and the three media handlers      *)
(* (transcribe, resync, refine_diarization) with the speaker reconciler.   *)
(*                                                                         *)
(* A Python float number of seconds is modelled exactly as a record        *)
(* [sec, frac]: whole seconds and a fraction counted in units of 1e-7 s    *)
(* (0 .. 9999999), so that sub-microsecond digits exist.  Python strings   *)
(* are TLA+ strings.  A Python dict is a function whose DOMAIN is its key  *)
(* set, so that "key in dict" is decidable.  A value that may be None is   *)
(* the record PyNone or PyStr(s).                                          *)
(***************************************************************************)
EXTENDS Integers, Sequences, FiniteSets, TLC

VARIABLES
    pc,                    \* position of the running call / request handler
    endpoint,              \* which function or endpoint is being exercised
    request,               \* the inputs of the call
    response,              \* what the call returned (status 0 = none yet)
    tmpfs,                 \* names of the temporary files that exist on disk
    temp_file,             \* the handler's temp_file (PyNone before the with)
    calls,                 \* external collaborators invoked so far, in order
    new_diarize_segments,  \* refine_diarization: the fresh diarization
    seg_idx,               \* refine_diarization: user segments processed so far
    speaker_map,           \* refine_diarization: AI label -> user name
    dominant_log,          \* refine_diarization: per processed segment, the
                           \* value of dominant_ai_speaker (PyNone if unset)
    final_diarization,     \* refine_diarization: the relabelled diarization
    result,                \* the handler's result["segments"]
    models                 \* the process-wide models dict (diarize may be None)

vars == <<pc, endpoint, request, response, tmpfs, temp_file, calls,
          new_diarize_segments, seg_idx, speaker_map, dominant_log,
          final_diarization, result, models>>

(***************************************************************************)
(* Bounds of the model.                                                    *)
(***************************************************************************)
MaxHours == 25     \* format_time inputs reach MaxHours hours (beyond one day)
MaxSegs  == 2      \* at most MaxSegs segments in a request
MaxTime  == 3      \* segment and diarization times lie on 0 .. MaxTime seconds

(***************************************************************************)
(* Python values.                                                          *)
(***************************************************************************)
PyNone   == [none |-> TRUE,  s |-> ""]
PyStr(s) == [none |-> FALSE, s |-> s]

\* str(v) as an f-string renders it
PyFormat(v) == IF v.none THEN "None" ELSE v.s

\* the truth value of an Optional[str]
Truthy(v) == ~v.none /\ v.s # ""

\* a float with no fractional part
Secs(n) == [sec |-> n, frac |-> 0]

\* dict.get(key) : the value, or None
DictGet(d, k) == IF k \in DOMAIN d THEN d[k] ELSE PyNone

EmptyDict == [k \in {} |-> PyNone]

\* str.startswith
StartsWith(s, p) == Len(s) >= Len(p) /\ SubSeq(s, 1, Len(p)) = p

IsSpace(c) == c \in {" ", "\t", "\n"}

RECURSIVE LStrip(_)
LStrip(s) ==
    IF Len(s) > 0 /\ IsSpace(SubSeq(s, 1, 1))
    THEN LStrip(SubSeq(s, 2, Len(s)))
    ELSE s

RECURSIVE RStrip(_)
RStrip(s) ==
    IF Len(s) > 0 /\ IsSpace(SubSeq(s, Len(s), Len(s)))
    THEN RStrip(SubSeq(s, 1, Len(s) - 1))
    ELSE s

\* str.strip()
Strip(s) == LStrip(RStrip(s))

\* f"{n:02}" and f"{n:03}"
Pad2(n) == IF n < 10 THEN "0" \o ToString(n) ELSE ToString(n)
Pad3(n) == IF n < 10 THEN "00" \o ToString(n)
           ELSE IF n < 100 THEN "0" \o ToString(n) ELSE ToString(n)

(***************************************************************************)
(* format_time                                                             *)
(***************************************************************************)
\* datetime.timedelta(seconds=t): the value is rounded to the nearest
\* microsecond, ties to even, and normalised to days / seconds (0..86399) /
\* microseconds (0..999999).
TimeDelta(t) ==
    LET q    == t.frac \div 10
        r    == t.frac % 10
        us   == IF r > 5 \/ (r = 5 /\ q % 2 = 1) THEN q + 1 ELSE q
        secs == t.sec + (us \div 1000000)
    IN  [days         |-> secs \div 86400,
         seconds      |-> secs % 86400,
         microseconds |-> us % 1000000]

format_time(t) ==
    LET delta        == TimeDelta(t)
        hours        == delta.seconds \div 3600
        remainder    == delta.seconds % 3600
        minutes      == remainder \div 60
        seconds      == remainder % 60
        milliseconds == delta.microseconds \div 1000
    IN  Pad2(hours) \o ":" \o Pad2(minutes) \o ":" \o Pad2(seconds)
          \o "," \o Pad3(milliseconds)

(***************************************************************************)
(* generate_srt                                                            *)
(***************************************************************************)
\* one cue block of generate_srt, for the segment at 0-based position i
SrtBlock(i, segment) ==
    LET start_time == format_time(segment["start"])
        end_time   == format_time(segment["end"])
        speaker    == IF "speaker" \in DOMAIN segment
                      THEN segment["speaker"] ELSE PyStr("SPEAKER_UNKNOWN")
        text       == Strip(segment["text"])
        line       == IF "speaker" \in DOMAIN segment
                      THEN "[" \o PyFormat(speaker) \o "]: " \o text
                      ELSE text
    IN  ToString(i + 1) \o "\n"
          \o start_time \o " --> " \o end_time \o "\n"
          \o line \o "\n\n"

RECURSIVE SrtFrom(_, _)
SrtFrom(segments, i) ==
    IF i >= Len(segments) THEN ""
    ELSE SrtBlock(i, segments[i + 1]) \o SrtFrom(segments, i + 1)

generate_srt(segments) == SrtFrom(segments, 0)

NoResponse == [status |-> 0]

\* the handler-local state of the media endpoints, before any handler runs
Idle ==
    /\ tmpfs = {}
    /\ temp_file = PyNone
    /\ calls = <<>>
    /\ new_diarize_segments = {}
    /\ seg_idx = 0
    /\ speaker_map = EmptyDict
    /\ dominant_log = <<>>
    /\ final_diarization = {}
    /\ result = <<>>

media_vars == <<tmpfs, temp_file, calls, new_diarize_segments, seg_idx,
                speaker_map, dominant_log, final_diarization, result>>

\* all sequences over S of length at most n
SeqsUpTo(S, n) == UNION {[1..k -> S] : k \in 0..n}

(***************************************************************************)
(* The time formatter as a call: inputs drawn from a bounded set.          *)
(***************************************************************************)
\* fractions of a second, in units of 1e-7 s: .0, .0000004 .. .0000006,
\* .0005, .0009995, .5, .999, .9999994 .. .9999996
FracSamples == {0, 4, 5, 6, 5000, 9995, 5000000, 9990000,
                9999994, 9999995, 9999996}

FormatInputs ==
    {[sec |-> h * 3600 + m * 60 + s, frac |-> f] :
        h \in 0..MaxHours, m \in {0, 1, 59}, s \in {0, 1, 59},
        f \in FracSamples}

InitFormat ==
    /\ pc = "start"
    /\ endpoint = "format_time"
    /\ request \in {[seconds |-> t] : t \in FormatInputs}
    /\ response = NoResponse
    /\ models = [diarize |-> TRUE]
    /\ Idle

FormatTime ==
    /\ endpoint = "format_time"
    /\ pc = "start"
    /\ response' = [status |-> 200, result |-> format_time(request.seconds)]
    /\ pc' = "done"
    /\ UNCHANGED <<endpoint, request, models, media_vars>>

NextFormat == FormatTime

\* the fields of a rendered timestamp H..H:MM:SS,mmm
HoursField(ts)   == SubSeq(ts, 1, Len(ts) - 10)
MinutesField(ts) == SubSeq(ts, Len(ts) - 8, Len(ts) - 7)
SecondsField(ts) == SubSeq(ts, Len(ts) - 5, Len(ts) - 4)
MillisField(ts)  == SubSeq(ts, Len(ts) - 2, Len(ts))

FormatDone == endpoint = "format_time" /\ pc = "done"

\* C1: for a whole number of seconds s, also beyond 86400, the hours field
\* of format_time(s) is floor(s / 3600) (never wrapped at 24), the minutes
\* field floor(s / 60) mod 60 and the seconds field s mod 60.
C1_HoursNotWrapped ==
    (FormatDone /\ request.seconds.frac = 0) =>
        LET s  == request.seconds.sec
            ts == response.result
        IN  /\ HoursField(ts)   = Pad2(s \div 3600)
            /\ MinutesField(ts) = Pad2((s \div 60) % 60)
            /\ SecondsField(ts) = Pad2(s % 60)

\* C10: format_time truncates to milliseconds: the milliseconds field is
\* floor(t * 1000) mod 1000 and sub-millisecond digits never carry into
\* the seconds field.
C10_TruncatesToMillis ==
    FormatDone =>
        LET t  == request.seconds
            ts == response.result
        IN  /\ MillisField(ts)  = Pad3(t.frac \div 10000)
            /\ SecondsField(ts) = Pad2(t.sec % 60)

SpecFormat == InitFormat /\ [][NextFormat]_vars

(***************************************************************************)
(* POST /rename_speakers                                                   *)
(***************************************************************************)
\* class Segment(BaseModel): validation of one posted JSON object.  The
\* model always has the four fields; speaker defaults to None.
SegmentModel(d) ==
    [start   |-> d["start"],
     end     |-> d["end"],
     text    |-> d["text"],
     speaker |-> IF "speaker" \in DOMAIN d THEN PyStr(d["speaker"]) ELSE PyNone]

\* segment_model.model_dump(): a dict with every field of the model
ModelDump(m) ==
    [k \in {"start", "end", "text", "speaker"} |-> m[k]]

\* the mutation: the replacement is written even when it is empty
RenameOneNoEmptyCheck(segment, map) ==
    LET old == segment["speaker"]
    IN  IF ~old.none /\ old.s \in DOMAIN map
        THEN [segment EXCEPT !["speaker"] = PyStr(map[old.s])]
        ELSE segment

\* the body of the loop of rename_speakers, for one dumped segment
RenameOne(segment, map) ==
    LET old == DictGet(segment, "speaker")
    IN  IF ~old.none /\ old.s \in DOMAIN map
        THEN LET new_name == map[old.s]
             IN  IF new_name # ""
                 THEN [segment EXCEPT !["speaker"] = PyStr(new_name)]
                 ELSE segment
        ELSE segment

UpdatedSegments(segments, map) ==
    [i \in 1..Len(segments) |->
        RenameOne(ModelDump(SegmentModel(segments[i])), map)]

\* posted JSON segments: the speaker key is optional
PostedSpans == {<<Secs(0), Secs(1)>>, <<Secs(1), [sec |-> 1, frac |-> 5000000]>>}
PostedTexts == {" hi ", "[x"}
PostedSpeakers == {"", "SPEAKER_00", "SPEAKER_01"}

PostedSegments ==
    {[start |-> sp[1], end |-> sp[2], text |-> t] :
        sp \in PostedSpans, t \in PostedTexts}
    \cup
    {[start |-> sp[1], end |-> sp[2], text |-> t, speaker |-> s] :
        sp \in PostedSpans, t \in PostedTexts, s \in PostedSpeakers}

PostedMaps ==
    UNION {[K -> {"", "Alice", "SPEAKER_01"}] :
             K \in SUBSET {"SPEAKER_00", "SPEAKER_01"}}

InitRename ==
    /\ pc = "start"
    /\ endpoint = "rename_speakers"
    /\ request \in {[segments |-> ss, speaker_map |-> m] :
                       ss \in SeqsUpTo(PostedSegments, MaxSegs),
                       m \in PostedMaps}
    /\ response = NoResponse
    /\ models = [diarize |-> TRUE]
    /\ Idle

RenameSpeakers ==
    /\ endpoint = "rename_speakers"
    /\ pc = "start"
    /\ LET updated_segments ==
               UpdatedSegments(request.segments, request.speaker_map)
       IN  response' = [status      |-> 200,
                        srt_content |-> generate_srt(updated_segments),
                        segments    |-> updated_segments]
    /\ pc' = "done"
    /\ UNCHANGED <<endpoint, request, models, media_vars>>

NextRename == RenameSpeakers

\* str.split("\n") of a text that ends every line with "\n"
RECURSIVE SplitLines(_, _)
SplitLines(s, cur) ==
    IF Len(s) = 0 THEN <<>>
    ELSE IF SubSeq(s, 1, 1) = "\n"
         THEN <<cur>> \o SplitLines(SubSeq(s, 2, Len(s)), "")
         ELSE SplitLines(SubSeq(s, 2, Len(s)), cur \o SubSeq(s, 1, 1))

\* the text line of the i-th cue (1-based) of an SRT document
CueLine(srt, i) == SplitLines(srt, "")[4 * (i - 1) + 3]

RenameDone == endpoint = "rename_speakers" /\ pc = "done"

\* C2: a cue's text line is "[speaker]: text" exactly when the input
\* segment carried a speaker field; a segment posted to rename_speakers
\* without a speaker is emitted as its bare stripped text.
C2_PrefixIffSpeakerField ==
    RenameDone =>
        \A i \in 1..Len(request.segments) :
            LET posted == request.segments[i]
                line   == CueLine(response.srt_content, i)
            IN  IF "speaker" \in DOMAIN posted
                THEN line = "[" \o response.segments[i]["speaker"].s \o "]: "
                              \o Strip(posted["text"])
                ELSE line = Strip(posted["text"])

\* the speaker rename_speakers is specified to return for a posted segment
RenamedSpeaker(posted, map) ==
    IF "speaker" \notin DOMAIN posted THEN PyNone
    ELSE IF posted["speaker"] \in DOMAIN map /\ map[posted["speaker"]] # ""
         THEN PyStr(map[posted["speaker"]])
         ELSE PyStr(posted["speaker"])

\* C7: rename_speakers is direct substitution: the output speaker is
\* speaker_map[old] when old is a key mapped to a non-empty name and old
\* otherwise; same number of segments, same order, start, end and text
\* unchanged.
C7_DirectSubstitution ==
    RenameDone =>
        /\ Len(response.segments) = Len(request.segments)
        /\ \A i \in 1..Len(request.segments) :
              LET posted == request.segments[i]
                  out    == response.segments[i]
              IN  /\ out["start"] = posted["start"]
                  /\ out["end"] = posted["end"]
                  /\ out["text"] = posted["text"]
                  /\ out["speaker"] = RenamedSpeaker(posted, request.speaker_map)

\* a finished rename holding a segment mapped to "" and one mapped to a name
C7_Witness ==
    /\ RenameDone
    /\ \E i, j \in 1..Len(request.segments) :
          LET a == request.segments[i]
              b == request.segments[j]
              m == request.speaker_map
          IN  /\ "speaker" \in DOMAIN a /\ "speaker" \in DOMAIN b
              /\ a["speaker"] \in DOMAIN m /\ m[a["speaker"]] = ""
              /\ b["speaker"] \in DOMAIN m /\ m[b["speaker"]] = "Alice"
              /\ response.segments[i]["speaker"] = PyStr(a["speaker"])
              /\ response.segments[j]["speaker"] = PyStr("Alice")

SpecRename == InitRename /\ [][NextRename]_vars

(***************************************************************************)
(* pyannote Annotation, as refine_diarization uses it: a set of turns      *)
(* [start, end, label].  Times are floats, compared in units of 1e-7 s.    *)
(***************************************************************************)
Ticks(t) == t.sec * 10000000 + t.frac

Later(a, b)   == IF Ticks(a) >= Ticks(b) THEN a ELSE b
Earlier(a, b) == IF Ticks(a) <= Ticks(b) THEN a ELSE b

\* Annotation.crop(PyannoteSegment(start, end)), mode "intersection": every
\* turn is cut to the span; turns with an empty intersection are dropped.
Crop(annotation, start, end) ==
    {[start |-> Later(turn.start, start),
      end   |-> Earlier(turn.end, end),
      label |-> turn.label] :
        turn \in {u \in annotation :
                    Ticks(Later(u.start, start)) < Ticks(Earlier(u.end, end))}}

RECURSIVE TotalDuration(_)
TotalDuration(turns) ==
    IF turns = {} THEN 0
    ELSE LET u == CHOOSE x \in turns : TRUE
         IN  (Ticks(u.end) - Ticks(u.start)) + TotalDuration(turns \ {u})

\* Annotation.label_duration(label)
LabelDuration(annotation, label) ==
    TotalDuration({u \in annotation : u.label = label})

\* every label of the model, in sorted() order
LabelOrder == <<"Alice", "Bob", "SPEAKER_00", "SPEAKER_01">>

\* Annotation.labels(): the labels present, sorted
Labels(annotation) ==
    SelectSeq(LabelOrder, LAMBDA l : \E u \in annotation : u.label = l)

\* max(speaker_durations, key=speaker_durations.get) over a dict whose keys
\* were inserted in the order of labels: the first key of maximal duration
RECURSIVE MaxKey(_, _)
MaxKey(labels, annotation) ==
    IF Len(labels) = 1 THEN labels[1]
    ELSE LET rest == MaxKey(Tail(labels), annotation)
         IN  IF LabelDuration(annotation, rest)
                  > LabelDuration(annotation, labels[1])
             THEN rest ELSE labels[1]

\* the mutation: the first overlapping label is taken, whatever its duration
DominantFirstLabel(annotation, start, end) ==
    LET overlapping_speakers == Crop(annotation, start, end)
    IN  IF overlapping_speakers = {} THEN PyNone
        ELSE PyStr(Labels(overlapping_speakers)[1])

\* lines 242-252: dominant_ai_speaker for a span, PyNone when nothing overlaps
DominantAiSpeaker(annotation, start, end) ==
    LET overlapping_speakers == Crop(annotation, start, end)
    IN  IF overlapping_speakers = {} THEN PyNone
        ELSE PyStr(MaxKey(Labels(overlapping_speakers), overlapping_speakers))

\* the mutation: only an empty or missing speaker is skipped
IsUneditedOnlyEmpty(speaker_name) == ~Truthy(speaker_name)

\* line 239: not speaker_name or speaker_name.startswith("SPEAKER_")
IsUnedited(speaker_name) ==
    ~Truthy(speaker_name) \/ StartsWith(speaker_name.s, "SPEAKER_")

DictSet(d, k, v) == [x \in DOMAIN d \cup {k} |-> IF x = k THEN v ELSE d[x]]

\* the mutation: a later segment overwrites the entry
MapOverwrite(map, label, name) == DictSet(map, label, name)

\* lines 255-257: the entry is written only if the label is not yet mapped
MapSetDefault(map, label, name) ==
    IF label \in DOMAIN map THEN map ELSE DictSet(map, label, name)

\* Annotation.rename_labels(generator=speaker_map.get).  With no mapping
\* given, pyannote draws one new label per existing label with
\* next(generator); a bound method is not an iterator, so the call raises
\* TypeError as soon as the annotation has a label.
GeneratorError == "'builtin_function_or_method' object is not an iterator"

RenameLabels(annotation) ==
    IF Len(Labels(annotation)) = 0
    THEN [raised |-> FALSE, value |-> annotation]
    ELSE [raised |-> TRUE, detail |-> GeneratorError]

\* whisperx.assign_word_speakers: a segment overlapped by the diarization
\* gets the speaker that overlaps it most; others get no speaker key
AssignWordSpeakers(annotation, segments) ==
    [i \in 1..Len(segments) |->
        LET d == DominantAiSpeaker(annotation, segments[i]["start"],
                                   segments[i]["end"])
        IN  IF d.none THEN segments[i]
            ELSE DictSet(segments[i], "speaker", d)]

(***************************************************************************)
(* The temporary file of a request.                                        *)
(***************************************************************************)
TempName == "tmp0"

\* the mutation: the file is removed on the successful path only
CloseTempOnSuccessOnly(fs, tf, raised) == IF raised THEN fs ELSE fs \ {tf.s}

\* leaving "with tempfile.NamedTemporaryFile(delete=True)": by return or by
\* exception, the file is closed and deleted
CloseTemp(fs, tf, raised) == fs \ {tf.s}

(***************************************************************************)
(* Inputs of the media endpoints.                                          *)
(***************************************************************************)
MediaEndpoints == {"transcribe", "resync", "refine_diarization"}

AiLabels == {"SPEAKER_00", "SPEAKER_01"}

\* spans of user segments: the first second, the rest, and everything
UserSpans == {<<0, 1>>, <<1, MaxTime>>, <<0, MaxTime>>}

WellFormedSegments ==
    {[start |-> Secs(sp[1]), end |-> Secs(sp[2]), text |-> "hi"] :
        sp \in UserSpans}
    \cup
    {[start |-> Secs(sp[1]), end |-> Secs(sp[2]), text |-> "hi",
      speaker |-> n] :
        sp \in UserSpans,
        n \in {"", "SPEAKER_00", "Alice", "Bob"}}

DictDel(d, k) == [x \in DOMAIN d \ {k} |-> d[x]]

\* segments that lack one of the required keys
MalformedSegments ==
    {DictDel(seg, k) :
        seg \in {[start |-> Secs(0), end |-> Secs(1), text |-> "hi"],
                 [start |-> Secs(0), end |-> Secs(1), text |-> "hi",
                  speaker |-> "Alice"]},
        k \in {"start", "end", "text"}}

\* the segments_json form field: not JSON, or a JSON array of objects
SegmentsJson ==
    {[valid |-> FALSE, value |-> <<>>]}
    \cup
    {[valid |-> TRUE, value |-> v] :
        v \in SeqsUpTo(WellFormedSegments \cup MalformedSegments, MaxSegs)}

\* what the diarization model may return: every second of 0 .. MaxTime is
\* silent or belongs to one speaker; a turn is a maximal run of one speaker
CellLabellings == [0..(MaxTime - 1) -> {""} \cup AiLabels]

Runs(f) ==
    {r \in (0..(MaxTime - 1)) \X (1..MaxTime) :
        /\ r[1] < r[2]
        /\ f[r[1]] # ""
        /\ \A x \in r[1]..(r[2] - 1) : f[x] = f[r[1]]
        /\ r[1] = 0 \/ f[r[1] - 1] # f[r[1]]
        /\ r[2] = MaxTime \/ f[r[2]] # f[r[1]]}

TurnsOf(f) ==
    {[start |-> Secs(r[1]), end |-> Secs(r[2]), label |-> f[r[1]]] :
        r \in Runs(f)}

Diarizations == {TurnsOf(f) : f \in CellLabellings}

\* what forced alignment may return
AlignedSegments ==
    {[start |-> Secs(0), end |-> Secs(1), text |-> " hello"],
     [start |-> Secs(1), end |-> Secs(MaxTime), text |-> "world "]}

AlignedResults == SeqsUpTo(AlignedSegments, MaxSegs)

MediaRequests(e) ==
    IF e = "refine_diarization"
    THEN {[content_ok |-> c, segments_json |-> j] :
            c \in BOOLEAN, j \in SegmentsJson}
    ELSE {[content_ok |-> c] : c \in BOOLEAN}

Init ==
    /\ pc = "start"
    /\ endpoint \in MediaEndpoints
    /\ request \in MediaRequests(endpoint)
    /\ response = NoResponse
    /\ models \in {[diarize |-> b] : b \in BOOLEAN}
    /\ Idle

(***************************************************************************)
(* The media handlers, one action per statement that can end the request   *)
(* or call a collaborator.                                                 *)
(***************************************************************************)
IsMedia == endpoint \in MediaEndpoints
IsRefine == endpoint = "refine_diarization"

\* user_segments = json.loads(segments_json)
user_segments == request.segments_json.value

\* an exception caught by "except Exception" inside the with block: it is
\* re-raised as HTTPException(500, str(e)) and the with block is left
Fail(detail) ==
    /\ response' = [status |-> 500, detail |-> detail]
    /\ pc' = "done"
    /\ tmpfs' = CloseTemp(tmpfs, temp_file, TRUE)

\* raise HTTPException(400, ...) before the with block
Reject(detail) ==
    /\ response' = [status |-> 400, detail |-> detail]
    /\ pc' = "done"

refine_vars == <<new_diarize_segments, seg_idx, speaker_map, dominant_log,
                 final_diarization>>

\* lines 106-107, 169-170, 210-211
CheckContentType ==
    /\ IsMedia /\ pc = "start"
    /\ IF ~request.content_ok
       THEN Reject("Invalid file type.")
       ELSE /\ pc' = IF IsRefine THEN "parse_json" ELSE "open_temp"
            /\ UNCHANGED response
    /\ UNCHANGED <<endpoint, request, models, tmpfs, temp_file, calls,
                   refine_vars, result>>

\* lines 213-216
ParseJson ==
    /\ IsRefine /\ pc = "parse_json"
    /\ IF ~request.segments_json.valid
       THEN Reject("Invalid segments_json format.")
       ELSE /\ pc' = "open_temp"
            /\ UNCHANGED response
    /\ UNCHANGED <<endpoint, request, models, tmpfs, temp_file, calls,
                   refine_vars, result>>

\* lines 109, 172, 218: entering the with block creates the file
OpenTemp ==
    /\ IsMedia /\ pc = "open_temp"
    /\ tmpfs' = tmpfs \cup {TempName}
    /\ temp_file' = PyStr(TempName)
    /\ pc' = "store_upload"
    /\ UNCHANGED <<endpoint, request, models, response, calls, refine_vars,
                   result>>

\* lines 110-112, 173-175, 219-221: read the upload, write it, flush
StoreUpload ==
    /\ IsMedia /\ pc = "store_upload"
    /\ pc' = "load_audio"
    /\ UNCHANGED <<endpoint, request, models, response, tmpfs, temp_file,
                   calls, refine_vars, result>>

\* the same lines raising (an I/O error): they are outside the try, the
\* exception leaves the with block and the framework answers 500
StoreUploadFails ==
    /\ IsMedia /\ pc = "store_upload"
    /\ response' = [status |-> 500, detail |-> "Internal Server Error"]
    /\ pc' = "done"
    /\ tmpfs' = CloseTemp(tmpfs, temp_file, TRUE)
    /\ UNCHANGED <<endpoint, request, models, temp_file, calls, refine_vars,
                   result>>

\* the collaborator called at each position
CollaboratorAt ==
    [p \in {"load_audio", "transcribe", "load_align_model", "align",
            "diarize", "assign"} |->
        IF p = "assign" THEN "assign_word_speakers" ELSE p]

\* any collaborator call raising: lines 137-138, 201-202, 276-279
CollaboratorRaises ==
    /\ IsMedia /\ pc \in DOMAIN CollaboratorAt
    /\ calls' = Append(calls, CollaboratorAt[pc])
    /\ Fail("collaborator error")
    /\ UNCHANGED <<endpoint, request, models, temp_file, refine_vars, result>>

\* lines 115, 178, 224
LoadAudio ==
    /\ IsMedia /\ pc = "load_audio"
    /\ calls' = Append(calls, "load_audio")
    /\ pc' = IF IsRefine THEN "check_model" ELSE "transcribe"
    /\ UNCHANGED <<endpoint, request, models, response, tmpfs, temp_file,
                   refine_vars, result>>

\* lines 116-118, 180-182
Transcribe ==
    /\ endpoint \in {"transcribe", "resync"} /\ pc = "transcribe"
    /\ calls' = Append(calls, "transcribe")
    /\ pc' = "load_align_model"
    /\ UNCHANGED <<endpoint, request, models, response, tmpfs, temp_file,
                   refine_vars, result>>

\* lines 119, 184
LoadAlignModel ==
    /\ endpoint \in {"transcribe", "resync"} /\ pc = "load_align_model"
    /\ calls' = Append(calls, "load_align_model")
    /\ pc' = "align"
    /\ UNCHANGED <<endpoint, request, models, response, tmpfs, temp_file,
                   refine_vars, result>>

\* lines 120-122, 186-191
Align ==
    /\ endpoint \in {"transcribe", "resync"} /\ pc = "align"
    /\ calls' = Append(calls, "align")
    /\ \E segments \in AlignedResults : result' = segments
    /\ pc' = IF endpoint = "transcribe" THEN "check_model" ELSE "render"
    /\ UNCHANGED <<endpoint, request, models, response, tmpfs, temp_file,
                   refine_vars>>

\* line 124: if diarize_model := models.get('diarize')
TranscribeCheckModel ==
    /\ endpoint = "transcribe" /\ pc = "check_model"
    /\ pc' = IF models.diarize THEN "diarize" ELSE "render"
    /\ UNCHANGED <<endpoint, request, models, response, tmpfs, temp_file,
                   calls, refine_vars, result>>

\* lines 225-227: the HTTPException raised here is caught by the handler's
\* own "except Exception" and answered as 500 with str(e) as the detail
RefineCheckModel ==
    /\ IsRefine /\ pc = "check_model"
    /\ IF ~models.diarize
       THEN Fail("500: Diarization model not loaded.")
       ELSE /\ pc' = "diarize"
            /\ UNCHANGED <<response, tmpfs>>
    /\ UNCHANGED <<endpoint, request, models, temp_file, calls, refine_vars,
                   result>>

\* lines 125, 231
Diarize ==
    /\ endpoint \in {"transcribe", "refine_diarization"} /\ pc = "diarize"
    /\ calls' = Append(calls, "diarize")
    /\ \E d \in Diarizations : new_diarize_segments' = d
    /\ pc' = IF IsRefine THEN "map_loop" ELSE "assign"
    /\ UNCHANGED <<endpoint, request, models, response, tmpfs, temp_file,
                   seg_idx, speaker_map, dominant_log, final_diarization,
                   result>>

\* lines 236-257: one iteration of the loop over user_segments
MapStep ==
    /\ IsRefine /\ pc = "map_loop" /\ seg_idx < Len(user_segments)
    /\ LET segment      == user_segments[seg_idx + 1]
           speaker_name == IF "speaker" \in DOMAIN segment
                           THEN PyStr(segment["speaker"]) ELSE PyNone
       IN  IF IsUnedited(speaker_name)
           THEN /\ seg_idx' = seg_idx + 1
                /\ dominant_log' = Append(dominant_log, PyNone)
                /\ UNCHANGED <<speaker_map, pc, response, tmpfs>>
           ELSE IF "start" \notin DOMAIN segment
           THEN /\ Fail("'start'")
                /\ UNCHANGED <<seg_idx, dominant_log, speaker_map>>
           ELSE IF "end" \notin DOMAIN segment
           THEN /\ Fail("'end'")
                /\ UNCHANGED <<seg_idx, dominant_log, speaker_map>>
           ELSE LET dominant_ai_speaker ==
                        DominantAiSpeaker(new_diarize_segments,
                                          segment["start"], segment["end"])
                IN  /\ seg_idx' = seg_idx + 1
                    /\ dominant_log' = Append(dominant_log, dominant_ai_speaker)
                    /\ speaker_map' =
                         IF dominant_ai_speaker.none THEN speaker_map
                         ELSE MapSetDefault(speaker_map, dominant_ai_speaker.s,
                                            speaker_name.s)
                    /\ UNCHANGED <<pc, response, tmpfs>>
    /\ UNCHANGED <<endpoint, request, models, temp_file, calls,
                   new_diarize_segments, final_diarization, result>>

\* line 263, once the loop is over
RenameLabelsStep ==
    /\ IsRefine /\ pc = "map_loop" /\ seg_idx = Len(user_segments)
    /\ LET renamed == RenameLabels(new_diarize_segments)
       IN  IF renamed.raised
           THEN /\ Fail(renamed.detail)
                /\ UNCHANGED final_diarization
           ELSE /\ final_diarization' = renamed.value
                /\ pc' = "build_result"
                /\ UNCHANGED <<response, tmpfs>>
    /\ UNCHANGED <<endpoint, request, models, temp_file, calls,
                   new_diarize_segments, seg_idx, speaker_map, dominant_log,
                   result>>

\* line 266: s["text"], s["start"], s["end"] of every user segment
BuildResult ==
    /\ IsRefine /\ pc = "build_result"
    /\ LET missing(s) == {k \in {"text", "start", "end"} : k \notin DOMAIN s}
           bad == {i \in 1..Len(user_segments) : missing(user_segments[i]) # {}}
       IN  IF bad # {}
           THEN LET s == user_segments[CHOOSE i \in bad : \A j \in bad : i <= j]
                IN  /\ Fail(IF "text" \notin DOMAIN s THEN "'text'"
                            ELSE IF "start" \notin DOMAIN s THEN "'start'"
                            ELSE "'end'")
                    /\ UNCHANGED result
           ELSE /\ result' = [i \in 1..Len(user_segments) |->
                                [text  |-> user_segments[i]["text"],
                                 start |-> user_segments[i]["start"],
                                 end   |-> user_segments[i]["end"]]]
                /\ pc' = "assign"
                /\ UNCHANGED <<response, tmpfs>>
    /\ UNCHANGED <<endpoint, request, models, temp_file, calls, refine_vars>>

\* lines 126, 267
Assign ==
    /\ endpoint \in {"transcribe", "refine_diarization"} /\ pc = "assign"
    /\ calls' = Append(calls, "assign_word_speakers")
    /\ result' = AssignWordSpeakers(IF IsRefine THEN final_diarization
                                    ELSE new_diarize_segments, result)
    /\ pc' = "render"
    /\ UNCHANGED <<endpoint, request, models, response, tmpfs, temp_file,
                   refine_vars>>

\* lines 129-135, 193-199, 269-274: render, return, leave the with block
Render ==
    /\ IsMedia /\ pc = "render"
    /\ response' = [status      |-> 200,
                    srt_content |-> generate_srt(result),
                    segments    |-> result]
    /\ pc' = "done"
    /\ tmpfs' = CloseTemp(tmpfs, temp_file, FALSE)
    /\ UNCHANGED <<endpoint, request, models, temp_file, calls, refine_vars,
                   result>>

Next ==
    \/ CheckContentType
    \/ ParseJson
    \/ OpenTemp
    \/ StoreUpload
    \/ StoreUploadFails
    \/ CollaboratorRaises
    \/ LoadAudio
    \/ Transcribe
    \/ LoadAlignModel
    \/ Align
    \/ TranscribeCheckModel
    \/ RefineCheckModel
    \/ Diarize
    \/ MapStep
    \/ RenameLabelsStep
    \/ BuildResult
    \/ Assign
    \/ Render

Spec == Init /\ [][Next]_vars

(***************************************************************************)
(* Properties of the media handlers.                                       *)
(***************************************************************************)
RequiredKeys == {"start", "end", "text"}

\* a refine_diarization request the specification calls invalid
InvalidRefineInput ==
    /\ IsRefine
    /\ \/ ~request.content_ok
       \/ ~request.segments_json.valid
       \/ \E i \in 1..Len(user_segments) :
             ~(RequiredKeys \subseteq DOMAIN user_segments[i])

\* C3: a refine_diarization request with invalid input (content type,
\* malformed JSON, a segment missing start, end or text) ends in an error
\* response and no external collaborator is invoked before it.
C3_InvalidInputNoCollaborator ==
    InvalidRefineInput =>
        /\ calls = <<>>
        /\ pc = "done" => response.status \in {400, 500}

\* the relabelling the specification describes: mapped labels replaced,
\* unmapped labels kept
IdentityFallback(annotation, map) ==
    {[u EXCEPT !.label = IF @ \in DOMAIN map THEN map[@] ELSE @] :
        u \in annotation}

RenameLabelsRaised ==
    pc = "done" /\ response.status = 500 /\ response.detail = GeneratorError

\* C4: applying the speaker map to the fresh diarization relabels every
\* mapped interval, keeps every unmapped label, and does not fail.
C4_IdentityFallback ==
    IsRefine =>
        /\ ~RenameLabelsRaised
        /\ pc \in {"build_result", "assign", "render"} =>
              final_diarization =
                  IdentityFallback(new_diarize_segments, speaker_map)

\* the user segment was given a name by hand
HandNamed(segment) ==
    /\ "speaker" \in DOMAIN segment
    /\ segment["speaker"] # ""
    /\ ~StartsWith(segment["speaker"], "SPEAKER_")

\* positions of the processed user segments whose dominant label is l
DominantIn(l) ==
    {i \in 1..Len(dominant_log) : dominant_log[i] = PyStr(l)}

SetMin(S) == CHOOSE x \in S : \A y \in S : x <= y

\* C5: the speaker map is first-assignment-wins: map[L] is the name of the
\* first hand-named user segment whose dominant label is L; a later segment
\* dominant in L never overwrites or removes the entry.
C5_FirstAssignmentWins ==
    IsRefine =>
        \A l \in DOMAIN speaker_map :
            /\ DominantIn(l) # {}
            /\ speaker_map[l] = user_segments[SetMin(DominantIn(l))]["speaker"]

\* two processed segments dominant in one label, named differently
C5_Witness ==
    /\ IsRefine
    /\ \E l \in DOMAIN speaker_map :
         \E i, j \in DominantIn(l) :
            /\ i < j
            /\ user_segments[i]["speaker"] = "Alice"
            /\ user_segments[j]["speaker"] = "Bob"
            /\ speaker_map[l] = "Alice"

\* whole seconds of the user segment's span during which label l speaks
OverlapSeconds(l, segment) ==
    Cardinality({c \in 0..(MaxTime - 1) :
        /\ segment["start"].sec <= c /\ c + 1 <= segment["end"].sec
        /\ \E u \in new_diarize_segments :
              u.label = l /\ u.start.sec <= c /\ c + 1 <= u.end.sec})

\* C6: for every hand-named user segment the label mapped from has maximal
\* total overlap with the segment's span; a label with strictly smaller
\* overlap is never chosen, and a segment that overlaps no diarization
\* interval adds no map entry.
C6_DominantIsMaximal ==
    IsRefine =>
        /\ \A i \in 1..Len(dominant_log) :
              LET segment == user_segments[i]
                  d       == dominant_log[i]
              IN  IF ~HandNamed(segment) THEN d.none
                  ELSE IF d.none
                  THEN \A l \in AiLabels : OverlapSeconds(l, segment) = 0
                  ELSE /\ OverlapSeconds(d.s, segment) > 0
                       /\ \A l \in AiLabels :
                             OverlapSeconds(l, segment)
                                 <= OverlapSeconds(d.s, segment)
        /\ \A l \in DOMAIN speaker_map : DominantIn(l) # {}

\* SPEAKER_01 was chosen over an overlapping SPEAKER_00 of smaller overlap
\* and mapped to the segment's name
C6_Witness ==
    /\ IsRefine
    /\ \E i \in 1..Len(dominant_log) :
          /\ dominant_log[i] = PyStr("SPEAKER_01")
          /\ OverlapSeconds("SPEAKER_00", user_segments[i]) > 0
          /\ "SPEAKER_01" \in DOMAIN speaker_map
          /\ speaker_map["SPEAKER_01"] = user_segments[i]["speaker"]

MediaDone == IsMedia /\ pc = "done"

\* C8: once a transcribe, resync or refine_diarization request has
\* finished, on any exit path, its temporary file no longer exists.
C8_TempFileReleased ==
    MediaDone => tmpfs = {}

\* a request that created its file and failed on malformed segment data
\* after the diarization ran
C8_Witness ==
    /\ MediaDone
    /\ ~temp_file.none
    /\ response.status = 500
    /\ response.detail = "'start'"
    /\ calls = <<"load_audio", "diarize">>

\* C9: un-edited user segments (speaker missing, empty, or starting with
\* "SPEAKER_") never add or change a map entry; every value of the map is
\* a non-empty name that does not start with "SPEAKER_".
C9_UneditedIgnored ==
    /\ [](IsRefine =>
            \A l \in DOMAIN speaker_map :
                /\ speaker_map[l] # ""
                /\ ~StartsWith(speaker_map[l], "SPEAKER_"))
    /\ [][(IsRefine /\ seg_idx' = seg_idx + 1
              /\ ~HandNamed(user_segments[seg_idx + 1]))
            => speaker_map' = speaker_map]_vars

\* the loop has passed an automatic-label segment, an empty-speaker segment
\* or a segment without speaker that overlaps a turn, and has mapped a name
C9_Witness ==
    /\ IsRefine
    /\ speaker_map # EmptyDict
    /\ \E i \in 1..seg_idx :
          /\ ~HandNamed(user_segments[i])
          /\ "speaker" \in DOMAIN user_segments[i]
          /\ user_segments[i]["speaker"] = "SPEAKER_00"
          /\ \E l \in AiLabels : OverlapSeconds(l, user_segments[i]) > 0

====
